---- MODULE Spec2Model ----
(***************************************************************************)
(* beancount.core.account: account names, their types, parents, sort keys  *)
(* and the classification of accounts, as functions over Python values.    *)
(*                                                                         *)
(* A Python str is a sequence of one-character strings.  A call either     *)
(* returns a value or raises an exception; both outcomes are values of     *)
(* the model, so that "never fails" is a property that can be refuted.     *)
(***************************************************************************)
EXTENDS Integers, Sequences, FiniteSets, TLC

VARIABLES op, arg, options, result

vars == <<op, arg, options, result>>

(***************************************************************************)
(* Characters and the character classes of the account-name pattern.       *)
(***************************************************************************)
UpperSeq == <<"A","B","C","D","E","F","G","H","I","J","K","L","M",
              "N","O","P","Q","R","S","T","U","V","W","X","Y","Z">>
LowerSeq == <<"a","b","c","d","e","f","g","h","i","j","k","l","m",
              "n","o","p","q","r","s","t","u","v","w","x","y","z">>
DigitSeq == <<"0","1","2","3","4","5","6","7","8","9">>

Range(seq) == {seq[i] : i \in 1..Len(seq)}
IndexOf(seq, c) == CHOOSE i \in 1..Len(seq) : seq[i] = c

IsUpper(c) == c \in Range(UpperSeq)
\* the class [A-Za-z0-9\-] of the pattern
IsWordChar(c) == c \in Range(UpperSeq) \cup Range(LowerSeq) \cup Range(DigitSeq) \cup {"-"}

\* the code point of a character: Python compares strings by code point
Ord(c) ==
    CASE c = "\n" -> 10
      [] c = " " -> 32
      [] c = "-" -> 45
      [] c \in Range(DigitSeq) -> 47 + IndexOf(DigitSeq, c)
      [] c = ":" -> 58
      [] c \in Range(UpperSeq) -> 64 + IndexOf(UpperSeq, c)
      [] c \in Range(LowerSeq) -> 96 + IndexOf(LowerSeq, c)

(***************************************************************************)
(* Python values and the outcomes of a call.                               *)
(***************************************************************************)
Str(s) == [t |-> "str", s |-> s]
IntVal(n) == [t |-> "int", n |-> n]
NoneVal == [t |-> "NoneType"]
Bool(b) == [t |-> "bool", b |-> b]
Tuple(items) == [t |-> "tuple", items |-> items]
Dict(items) == [t |-> "dict", items |-> items]

\* Account = namedtuple('Account', 'name type')
Account(name, type) == [t |-> "Account", name |-> name, type |-> type]

isinstance_str(v) == v.t = "str"

Return(v) == [ok |-> TRUE, val |-> v]
Raise(exc, line) == [ok |-> FALSE, exc |-> exc, line |-> line]
NoResult == [ok |-> FALSE, exc |-> "not called", line |-> 0]

\* truthiness of the values the module tests with "if"/"not"
Truthy(v) ==
    CASE v.t = "str" -> Len(v.s) > 0
      [] v.t = "NoneType" -> FALSE
      [] v.t = "int" -> v.n # 0
      [] v.t = "bool" -> v.b
      [] OTHER -> TRUE

(***************************************************************************)
(* str.split(sep) and sep.join(parts)                                      *)
(***************************************************************************)
RECURSIVE split(_, _)
split(s, sep) ==
    IF \E i \in 1..Len(s) : s[i] = sep
    THEN LET i == CHOOSE i \in 1..Len(s) :
                      s[i] = sep /\ \A j \in 1..(i - 1) : s[j] # sep
         IN  <<SubSeq(s, 1, i - 1)>> \o split(SubSeq(s, i + 1, Len(s)), sep)
    ELSE <<s>>

RECURSIVE join(_, _)
join(sep, parts) ==
    IF Len(parts) = 0 THEN <<>>
    ELSE IF Len(parts) = 1 THEN parts[1]
    ELSE parts[1] \o <<sep>> \o join(sep, Tail(parts))

\* list.pop(-1): the list without its last element
pop_last(parts) == SubSeq(parts, 1, Len(parts) - 1)

(***************************************************************************)
(* Comparison of strings and of tuples, as Python's < does it.             *)
(***************************************************************************)
MinOf(a, b) == IF a <= b THEN a ELSE b

StrLess(s, u) ==
    \/ \E i \in 1..MinOf(Len(s), Len(u)) :
          /\ \A j \in 1..(i - 1) : s[j] = u[j]
          /\ Ord(s[i]) < Ord(u[i])
    \/ /\ Len(s) < Len(u)
       /\ \A j \in 1..Len(s) : s[j] = u[j]

\* (rank, name) < (rank, name): the first differing item decides
TupleLess(k1, k2) ==
    IF k1.items[1] # k2.items[1]
    THEN k1.items[1].n < k2.items[1].n
    ELSE StrLess(k1.items[2].s, k2.items[2].s)

(***************************************************************************)
(* beancount.core.account_types: the root types and their order.           *)
(***************************************************************************)
Assets == <<"A","s","s","e","t","s">>
Liabilities == <<"L","i","a","b","i","l","i","t","i","e","s">>
Equity == <<"E","q","u","i","t","y">>
Income == <<"I","n","c","o","m","e">>
Expenses == <<"E","x","p","e","n","s","e","s">>

ACCOUNT_TYPES == <<Str(Assets), Str(Liabilities), Str(Equity), Str(Income), Str(Expenses)>>

\* value in ACCOUNT_TYPES
in_ACCOUNT_TYPES(v) == \E i \in 1..Len(ACCOUNT_TYPES) : ACCOUNT_TYPES[i] = v

\* type in TYPES_ORDER: the order has a position for exactly the root types
in_TYPES_ORDER(type) == in_ACCOUNT_TYPES(type)

\* TYPES_ORDER[type]: the position of the type in the order
TYPES_ORDER(type) == IntVal(IndexOf(ACCOUNT_TYPES, type) - 1)

(***************************************************************************)
(* re.match('([A-Z][A-Za-z0-9\-]+)(:[A-Z][A-Za-z0-9\-]+)+$', string)        *)
(*                                                                         *)
(* The pattern read left to right, as positions of a matcher:              *)
(*   "start"  before the first [A-Z]                                       *)
(*   "head1"  after the [A-Z] of the first group, one [A-Za-z0-9\-] due    *)
(*   "body1"  inside the + of the first group                              *)
(*   "colon"  after a ':' of the repeated group, its [A-Z] due             *)
(*   "head"   after that [A-Z], one [A-Za-z0-9\-] due                      *)
(*   "body"   inside the + of the repeated group: $ may match here         *)
(*   "eol"    after a newline read in "body": $ (without re.MULTILINE)     *)
(*            matches at the end of the string and also just before a      *)
(*            newline that ends the string                                 *)
(*   "fail"   no match                                                     *)
(* match() anchors at the start of the string only; $ anchors the end.     *)
(***************************************************************************)
re_step(q, c) ==
    CASE q = "start" -> IF IsUpper(c) THEN "head1" ELSE "fail"
      [] q = "head1" -> IF IsWordChar(c) THEN "body1" ELSE "fail"
      [] q = "body1" -> IF IsWordChar(c) THEN "body1"
                        ELSE IF c = ":" THEN "colon" ELSE "fail"
      [] q = "colon" -> IF IsUpper(c) THEN "head" ELSE "fail"
      [] q = "head" -> IF IsWordChar(c) THEN "body" ELSE "fail"
      [] q = "body" -> IF IsWordChar(c) THEN "body"
                       ELSE IF c = ":" THEN "colon"
                       ELSE IF c = "\n" THEN "eol" ELSE "fail"
      [] OTHER -> "fail"

RECURSIVE re_run(_, _)
re_run(q, s) == IF Len(s) = 0 THEN q ELSE re_run(re_step(q, Head(s)), Tail(s))

\* bool(re.match(pattern, s)) for a str s
re_match(s) == re_run("start", s) \in {"body", "eol"}

(***************************************************************************)
(* The functions of beancount.core.account                                 *)
(***************************************************************************)
\* account_name_type taking the last component, [-1], for the first, [0]
account_name_type_last(account_name) ==
    IF ~isinstance_str(account_name) THEN Raise("AssertionError", 87)
    ELSE LET components == split(account_name.s, ":")
             atype == Str(components[Len(components)])
         IN  IF ~in_ACCOUNT_TYPES(atype) THEN Raise("AssertionError", 89)
             ELSE Return(atype)

account_name_type(account_name) ==
    IF ~isinstance_str(account_name) THEN Raise("AssertionError", 87)
    ELSE LET atype == Str(split(account_name.s, ":")[1])
         IN  IF ~in_ACCOUNT_TYPES(atype) THEN Raise("AssertionError", 89)
             ELSE Return(atype)

\* account_from_name with the two fields of the Account in the wrong order
account_from_name_swapped(account_name) ==
    IF ~isinstance_str(account_name) THEN Raise("AssertionError", 24)
    ELSE LET atype == account_name_type(account_name)
         IN  IF ~atype.ok THEN atype
             ELSE IF ~in_ACCOUNT_TYPES(atype.val) THEN Raise("AssertionError", 26)
             ELSE Return(Account(atype.val, account_name))

account_from_name(account_name) ==
    IF ~isinstance_str(account_name) THEN Raise("AssertionError", 24)
    ELSE LET atype == account_name_type(account_name)
         IN  IF ~atype.ok THEN atype
             ELSE IF ~in_ACCOUNT_TYPES(atype.val) THEN Raise("AssertionError", 26)
             ELSE Return(Account(account_name, atype.val))

\* account_name_parent without the components.pop(-1)
account_name_parent_nopop(account_name) ==
    IF ~isinstance_str(account_name) THEN Raise("AssertionError", 37)
    ELSE IF ~Truthy(account_name) THEN Return(NoneVal)
    ELSE LET components == split(account_name.s, ":")
         IN  Return(Str(join(":", components)))

account_name_parent(account_name) ==
    IF ~isinstance_str(account_name) THEN Raise("AssertionError", 37)
    ELSE IF ~Truthy(account_name) THEN Return(NoneVal)
    ELSE LET components == split(account_name.s, ":")
         IN  Return(Str(join(":", pop_last(components))))

\* The names the module binds at its top level.  account_name_leaf tests
\* "name" before anything else; its only local is account_name, so the
\* lookup goes to these names (no builtin is called "name") and fails.
ModuleGlobals == {"re", "namedtuple", "account_types", "Account",
                  "account_from_name", "account_name_parent", "account_name_leaf",
                  "account_sortkey", "account_name_sortkey", "account_name_type",
                  "is_account_name", "is_account_name_root",
                  "is_balance_sheet_account", "is_income_statement_account",
                  "accountify_dict"}

account_name_leaf(account_name) ==
    IF "name" \notin ModuleGlobals \cup {"account_name"} THEN Raise("NameError", 52)
    ELSE LET components == split(account_name.s, ":")
         IN  Return(Str(components[Len(components)]))

\* account_sortkey with account.type for account.name as the second item
account_sortkey_bytype(account) ==
    IF account.t # "Account" THEN Raise("AttributeError", 64)
    ELSE IF ~in_TYPES_ORDER(account.type) THEN Raise("KeyError", 64)
    ELSE Return(Tuple(<<TYPES_ORDER(account.type), account.type>>))

account_sortkey(account) ==
    IF account.t # "Account" THEN Raise("AttributeError", 64)
    ELSE IF ~in_TYPES_ORDER(account.type) THEN Raise("KeyError", 64)
    ELSE Return(Tuple(<<TYPES_ORDER(account.type), account.name>>))

account_name_sortkey(account_name) ==
    LET type_ == account_name_type(account_name)
    IN  IF ~type_.ok THEN type_
        ELSE IF ~in_TYPES_ORDER(type_.val) THEN Raise("KeyError", 77)
        ELSE Return(Tuple(<<TYPES_ORDER(type_.val), account_name>>))

\* is_account_name without the bool(): the match object, or None
is_account_name_nobool(string) ==
    IF ~isinstance_str(string) THEN Raise("TypeError", 101)
    ELSE Return(IF re_match(string.s) THEN [t |-> "Match"] ELSE NoneVal)

is_account_name(string) ==
    IF ~isinstance_str(string) THEN Raise("TypeError", 101)
    ELSE Return(Bool(re_match(string.s)))

is_account_name_root(account_name) ==
    Return(Bool(in_ACCOUNT_TYPES(account_name)))

\* value in (options[x] for x in keys): the generator is consumed up to the
\* first item equal to value; options[x] raises KeyError for a missing key
RECURSIVE in_options(_, _, _, _)
in_options(value, opts, keys, line) ==
    IF Len(keys) = 0 THEN Return(Bool(FALSE))
    ELSE IF Head(keys) \notin DOMAIN opts.items THEN Raise("KeyError", line)
    ELSE IF opts.items[Head(keys)] = value THEN Return(Bool(TRUE))
    ELSE in_options(value, opts, Tail(keys), line)

\* is_balance_sheet_account testing the canonical names, not the options
is_balance_sheet_account_canonical(account, opts) ==
    IF account.t # "Account" THEN Raise("AttributeError", 125)
    ELSE Return(Bool(account.type \in {Str(Assets), Str(Liabilities), Str(Equity)}))

is_balance_sheet_account(account, opts) ==
    IF account.t # "Account" THEN Raise("AttributeError", 125)
    ELSE in_options(account.type, opts,
                    <<"name_assets", "name_liabilities", "name_equity">>, 125)

is_income_statement_account(account, opts) ==
    IF account.t # "Account" THEN Raise("AttributeError", 139)
    ELSE in_options(account.type, opts, <<"name_income", "name_expenses">>, 139)

\* the comprehension without its is_account_name(value) test
accountify_value_anystring(value) ==
    IF isinstance_str(value)
    THEN account_from_name(value)
    ELSE Return(value)

\* the value the comprehension computes for one item
accountify_value(value) ==
    IF isinstance_str(value) /\ is_account_name(value).val.b
    THEN account_from_name(value)
    ELSE Return(value)

accountify_dict(string_dict) ==
    LET items == string_dict.items
        out == [key \in DOMAIN items |-> accountify_value(items[key])]
    IN  IF \E key \in DOMAIN items : ~out[key].ok
        THEN out[CHOOSE key \in DOMAIN items : ~out[key].ok]
        ELSE Return(Dict([key \in DOMAIN items |-> out[key].val]))

(***************************************************************************)
(* The inputs of the calls.                                                *)
(***************************************************************************)
MaxPieces == 4
MaxKeys == 2

Foo == <<"F","o","o">>
Cash == <<"C","a","s","h">>

\* pieces of text the account names are put together from
Fragments == {Assets, Income, Foo, <<"X">>, <<"b">>, <<"9">>, <<"-">>, <<" ">>, <<":">>, <<"\n">>}

RECURSIVE Concats(_)
Concats(k) ==
    IF k = 0 THEN {<<>>}
    ELSE LET shorter == Concats(k - 1)
         IN  shorter \cup {s \o f : s \in shorter, f \in Fragments}

Names == Concats(MaxPieces)

NonStrings == {IntVal(42), IntVal(0), NoneVal}

\* the names of the accounts that are sorted and classified
AccountNames ==
    {Assets \o <<":">> \o Cash,
     Assets \o <<":">> \o <<"C","a">>,
     Assets \o <<":">> \o <<"c","a","s","h">>,
     Assets \o <<":">> \o <<"B","a","n","k">>,
     Assets \o <<":">> \o Cash \o <<":">> \o <<"U","S">>,
     Assets \o <<":">> \o Cash \o <<"-">> \o <<"U","S">>,
     Assets,
     Liabilities \o <<":">> \o <<"C","a","r","d">>,
     Equity \o <<":">> \o <<"O","p","e","n">>,
     Income \o <<":">> \o <<"P","a","y">>,
     Expenses \o <<":">> \o <<"F","o","o","d">>,
     Expenses}

\* Accounts as the factory makes them, and Accounts made with the
\* namedtuple's own constructor from a name and any root type
Accounts ==
    {account_from_name(Str(n)).val : n \in {m \in AccountNames : account_from_name(Str(m)).ok}}
    \cup {Account(Str(n), ACCOUNT_TYPES[i]) : n \in AccountNames, i \in 1..Len(ACCOUNT_TYPES)}

\* the values of a dictionary handed to accountify_dict
DictValues ==
    {Str(Assets \o <<":">> \o Cash),
     Str(Income \o <<":">> \o <<"P","a","y">>),
     Str(Assets \o <<":">> \o Cash \o <<"\n">>),
     Str(Foo \o <<":">> \o <<"B","a","r">>),
     Str(Assets),
     Str(<<"a","s","s","e","t","s">> \o <<":">> \o Cash),
     Str(<<"c","s","v">>),
     Str(<<>>),
     IntVal(42),
     NoneVal,
     Account(Str(Assets \o <<":">> \o Cash), Str(Assets))}

DictKeys == {"k" \o ToString(i) : i \in 1..MaxKeys}

Dicts == UNION {[keys -> DictValues] : keys \in SUBSET DictKeys}

\* the role keys of the options and the type names a file may configure
RoleKeys == {"name_assets", "name_liabilities", "name_equity", "name_income", "name_expenses"}

Aktiva == <<"A","k","t","i","v","a">>

OptionValues == {Str(Assets), Str(Income), Str(Aktiva)}

Options == UNION {[keys -> OptionValues] : keys \in SUBSET RoleKeys}

ClassifiedAccounts ==
    {Account(Str(ty \o <<":">> \o Cash), Str(ty)) : ty \in {Assets, Income, Aktiva, Equity}}
    \cup {IntVal(42)}

(***************************************************************************)
(* The calls: a state holds the arguments of one call and, once the call   *)
(* has been made, the function called and its outcome.                     *)
(***************************************************************************)
Init ==
    /\ op = "none"
    /\ result = NoResult
    /\ \/ arg \in {Str(n) : n \in Names} \cup NonStrings /\ options = NoneVal
       \/ arg \in Accounts /\ options = NoneVal
       \/ arg \in {Dict(d) : d \in Dicts} /\ options = NoneVal
       \/ arg \in ClassifiedAccounts /\ options \in {Dict(o) : o \in Options}

IsNameArg == arg.t \in {"str", "int", "NoneType"} /\ options = NoneVal
IsAccountArg == arg.t \in {"Account", "int", "NoneType"} /\ options = NoneVal
IsDictArg == arg.t = "dict" /\ options = NoneVal
IsClassifyArg == options # NoneVal

Call(name, outcome) ==
    /\ op = "none"
    /\ op' = name
    /\ result' = outcome
    /\ UNCHANGED <<arg, options>>

Call_account_from_name == IsNameArg /\ Call("account_from_name", account_from_name(arg))
Call_account_name_parent == IsNameArg /\ Call("account_name_parent", account_name_parent(arg))
Call_account_name_leaf == IsNameArg /\ Call("account_name_leaf", account_name_leaf(arg))
Call_account_sortkey == IsAccountArg /\ Call("account_sortkey", account_sortkey(arg))
Call_account_name_sortkey == IsNameArg /\ Call("account_name_sortkey", account_name_sortkey(arg))
Call_account_name_type == IsNameArg /\ Call("account_name_type", account_name_type(arg))
Call_is_account_name == IsNameArg /\ Call("is_account_name", is_account_name(arg))
Call_is_account_name_root == IsNameArg /\ Call("is_account_name_root", is_account_name_root(arg))
Call_is_balance_sheet_account ==
    IsClassifyArg /\ Call("is_balance_sheet_account", is_balance_sheet_account(arg, options))
Call_is_income_statement_account ==
    IsClassifyArg /\ Call("is_income_statement_account", is_income_statement_account(arg, options))
Call_accountify_dict == IsDictArg /\ Call("accountify_dict", accountify_dict(arg))

Next ==
    \/ Call_account_from_name
    \/ Call_account_name_parent
    \/ Call_account_name_leaf
    \/ Call_account_sortkey
    \/ Call_account_name_sortkey
    \/ Call_account_name_type
    \/ Call_is_account_name
    \/ Call_is_account_name_root
    \/ Call_is_balance_sheet_account
    \/ Call_is_income_statement_account
    \/ Call_accountify_dict

Spec == Init /\ [][Next]_vars

(***************************************************************************)
(* What the claims speak of, stated on the text of a name alone.           *)
(***************************************************************************)
Colons(s) == {i \in 1..Len(s) : s[i] = ":"}

\* the text before the first colon, the whole text when there is none
FirstSegment(s) ==
    IF Colons(s) = {} THEN s
    ELSE SubSeq(s, 1, (CHOOSE i \in Colons(s) : \A j \in Colons(s) : i <= j) - 1)

\* the text after the last colon, the whole text when there is none
LastSegment(s) ==
    IF Colons(s) = {} THEN s
    ELSE SubSeq(s, (CHOOSE i \in Colons(s) : \A j \in Colons(s) : i >= j) + 1, Len(s))

\* the text before the last colon, empty when there is none
WithoutLastSegment(s) ==
    IF Colons(s) = {} THEN <<>>
    ELSE SubSeq(s, 1, (CHOOSE i \in Colons(s) : \A j \in Colons(s) : i >= j) - 1)

\* a segment of the grammar: [A-Z][A-Za-z0-9-]+
IsSegment(seg) ==
    /\ Len(seg) >= 2
    /\ IsUpper(seg[1])
    /\ \A i \in 2..Len(seg) : IsWordChar(seg[i])

\* SEGMENT(:SEGMENT)+ with nothing before or after
InGrammar(s) ==
    /\ Colons(s) # {}
    /\ \A i \in Colons(s) \cup {0} :
          LET nxt == {j \in Colons(s) : j > i}
              end == IF nxt = {} THEN Len(s) + 1
                     ELSE CHOOSE j \in nxt : \A k \in nxt : j <= k
          IN  IsSegment(SubSeq(s, i + 1, end - 1))

RootTypes == {Assets, Liabilities, Equity, Income, Expenses}

\* Assets < Liabilities < Equity < Income < Expenses
RankOf(type) ==
    CASE type = Str(Assets) -> 1
      [] type = Str(Liabilities) -> 2
      [] type = Str(Equity) -> 3
      [] type = Str(Income) -> 4
      [] type = Str(Expenses) -> 5

IsTrue(r) == r = Return(Bool(TRUE))
IsBoolean(r) == r.ok /\ r.val.t = "bool"

(***************************************************************************)
(* C1                                                                      *)
(***************************************************************************)
\* C1 as stated: for every string n that is_account_name accepts,
\* account_from_name(n) succeeds and returns an Account whose name is n and
\* whose type is account_name_type(n).
C1_ValidNameConstructs ==
    (op = "account_from_name" /\ arg.t = "str" /\ IsTrue(is_account_name(arg)))
        => /\ result.ok
           /\ result.val.name = arg
           /\ Return(result.val.type) = account_name_type(arg)

\* C1 amended: for every string n that is_account_name accepts and whose
\* first colon-segment is a registered root type, account_from_name(n)
\* succeeds and returns an Account whose name is n and whose type is
\* account_name_type(n); for an accepted n whose first segment is not
\* registered it fails with the assertion error of account_name_type.
C1_ValidRootedNameConstructs ==
    (op = "account_from_name" /\ arg.t = "str" /\ IsTrue(is_account_name(arg)))
        => IF FirstSegment(arg.s) \in RootTypes
           THEN /\ result.ok
                /\ result.val.t = "Account"
                /\ result.val.name = arg
                /\ Return(result.val.type) = account_name_type(arg)
           ELSE result = Raise("AssertionError", 89)

C1_Witness ==
    /\ op = "account_from_name"
    /\ arg.t = "str"
    /\ IsTrue(is_account_name(arg))
    /\ result.ok
    /\ result.val.name = arg

(***************************************************************************)
(* C2                                                                      *)
(***************************************************************************)
\* C2 as stated: accountify_dict never fails; for every input mapping the
\* call returns a mapping.
C2_AccountifyNeverFails ==
    op = "accountify_dict" => (result.ok /\ result.val.t = "dict")

(***************************************************************************)
(* C3                                                                      *)
(***************************************************************************)
\* C3: when accountify_dict returns r for the mapping m, r has exactly the
\* keys of m, r[k] is account_from_name(m[k]) for each string m[k] that
\* is_account_name accepts and m[k] itself for every other value, and
\* accountify_dict(r) returns r.
C3_AccountifyConvertsExactlyValidNames ==
    (op = "accountify_dict" /\ result.ok)
        => LET m == arg.items
               r == result.val.items
           IN  /\ DOMAIN r = DOMAIN m
               /\ \A k \in DOMAIN m :
                     IF m[k].t = "str" /\ IsTrue(is_account_name(m[k]))
                     THEN /\ Return(r[k]) = account_from_name(m[k])
                          /\ r[k] = Account(m[k], Str(FirstSegment(m[k].s)))
                     ELSE r[k] = m[k]
               /\ accountify_dict(result.val) = Return(result.val)

C3_Witness ==
    /\ op = "accountify_dict"
    /\ result.ok
    /\ \E k \in DOMAIN arg.items :
          arg.items[k].t = "str" /\ result.val.items[k].t = "Account"
    /\ \E k \in DOMAIN arg.items :
          arg.items[k].t = "str" /\ result.val.items[k] = arg.items[k]

(***************************************************************************)
(* C4                                                                      *)
(***************************************************************************)
\* C4 as stated: for every string n, account_name_parent(n) returns n
\* without its last colon-segment; the empty string for a name with no
\* colon and the empty string for the empty input.
C4_ParentIsNameWithoutLastSegment ==
    (op = "account_name_parent" /\ arg.t = "str")
        => result = Return(Str(WithoutLastSegment(arg.s)))

\* C4 amended: for every non-empty string n, account_name_parent(n)
\* returns n without its last colon-segment, the rest joined with colons;
\* the empty string for a name with no colon, and otherwise a string with
\* one colon-segment fewer than n; for the empty input it returns None.
C4_ParentOfNonEmptyName ==
    (op = "account_name_parent" /\ arg.t = "str")
        => IF arg.s = <<>>
           THEN result = Return(NoneVal)
           ELSE /\ result = Return(Str(WithoutLastSegment(arg.s)))
                /\ IF Colons(arg.s) = {}
                   THEN result.val.s = <<>>
                   ELSE Cardinality(Colons(result.val.s)) + 1 = Cardinality(Colons(arg.s))

C4_Witness ==
    /\ op = "account_name_parent"
    /\ arg.t = "str"
    /\ Cardinality(Colons(arg.s)) = 2
    /\ result.ok
    /\ Cardinality(Colons(result.val.s)) = 1

(***************************************************************************)
(* C5                                                                      *)
(***************************************************************************)
\* C5 as stated: for every string n, account_name_leaf(n) returns the last
\* colon-segment of n when n is non-empty and None when n is empty; the
\* call does not fail.
C5_LeafIsLastSegment ==
    (op = "account_name_leaf" /\ arg.t = "str")
        => result = IF arg.s = <<>> THEN Return(NoneVal)
                    ELSE Return(Str(LastSegment(arg.s)))

(***************************************************************************)
(* C6                                                                      *)
(***************************************************************************)
\* C6 as stated: is_account_name, is_account_name_root,
\* is_balance_sheet_account and is_income_statement_account never raise;
\* for any input each returns a boolean.
C6_ProbesNeverRaise ==
    op \in {"is_account_name", "is_account_name_root",
            "is_balance_sheet_account", "is_income_statement_account"}
        => IsBoolean(result)

\* C6 amended: is_account_name returns a boolean for every string and
\* raises TypeError for a value that is no string; is_account_name_root
\* returns a boolean for every string, integer or None;
\* is_balance_sheet_account and is_income_statement_account return a
\* boolean for every Account and every options mapping that has the five
\* role keys.
C6_ProbesOnWellTypedInput ==
    /\ op = "is_account_name"
          => IF arg.t = "str" THEN IsBoolean(result)
             ELSE result = Raise("TypeError", 101)
    /\ op = "is_account_name_root" => IsBoolean(result)
    /\ (/\ op \in {"is_balance_sheet_account", "is_income_statement_account"}
        /\ arg.t = "Account"
        /\ RoleKeys \subseteq DOMAIN options.items)
          => IsBoolean(result)

C6_Witness ==
    /\ op = "is_account_name"
    /\ arg.t = "str"
    /\ ~InGrammar(arg.s)
    /\ Len(arg.s) > 0
    /\ result = Return(Bool(FALSE))

(***************************************************************************)
(* C7                                                                      *)
(***************************************************************************)
\* C7: for Accounts a and b of different types account_sortkey(a) <
\* account_sortkey(b) exactly when the rank of a's type is below the rank of
\* b's type; for Accounts of the same type exactly when a's name is
\* lexicographically smaller than b's; and account_name_sortkey(n) equals
\* account_sortkey(account_from_name(n)) wherever account_name_type(n)
\* succeeds.
C7_SortKeyFollowsRankThenName ==
    /\ (op = "account_sortkey" /\ result.ok)
          => \A b \in Accounts :
                LET less == TupleLess(result.val, account_sortkey(b).val)
                IN  IF arg.type # b.type
                    THEN less <=> RankOf(arg.type) < RankOf(b.type)
                    ELSE less <=> StrLess(arg.name.s, b.name.s)
    /\ (op = "account_name_sortkey" /\ account_name_type(arg).ok)
          => /\ result.ok
             /\ result = account_sortkey(account_from_name(arg).val)

C7_Witness ==
    /\ op = "account_sortkey"
    /\ result.ok
    /\ \E b \in Accounts :
          /\ arg.type # b.type
          /\ StrLess(b.name.s, arg.name.s)
          /\ TupleLess(result.val, account_sortkey(b).val)

(***************************************************************************)
(* C8                                                                      *)
(***************************************************************************)
\* C8 as stated: is_account_name(text) is true exactly when text is two or
\* more colon-separated segments, each an uppercase letter followed by one
\* or more of [A-Za-z0-9-], with nothing before or after; so a bare root
\* type and a name that starts with a lowercase letter are rejected.
C8_ValidNameIsGrammar ==
    (op = "is_account_name" /\ arg.t = "str")
        => /\ result = Return(Bool(InGrammar(arg.s)))
           /\ IsTrue(is_account_name_root(arg)) => ~IsTrue(result)

(***************************************************************************)
(* C9                                                                      *)
(***************************************************************************)
\* C9: for every string n, account_from_name(n) and account_name_type(n)
\* fail with the invalid-account-type assertion exactly when the first
\* colon-segment of n is not a registered root type; otherwise
\* account_name_type returns that segment and account_from_name returns
\* Account(n, that segment).  So every Account that account_from_name
\* returns or accountify_dict puts into a mapping has its name's first
\* segment as its type, and that type is registered.
C9_TypeIsRegisteredFirstSegment ==
    /\ (op = "account_name_type" /\ arg.t = "str")
          => IF FirstSegment(arg.s) \in RootTypes
             THEN result = Return(Str(FirstSegment(arg.s)))
             ELSE result = Raise("AssertionError", 89)
    /\ (op = "account_from_name" /\ arg.t = "str")
          => IF FirstSegment(arg.s) \in RootTypes
             THEN result = Return(Account(arg, Str(FirstSegment(arg.s))))
             ELSE result = Raise("AssertionError", 89)
    /\ (op = "accountify_dict" /\ result.ok)
          => \A k \in DOMAIN arg.items :
                (arg.items[k].t = "str" /\ result.val.items[k].t = "Account")
                    => /\ result.val.items[k].type
                            = Str(FirstSegment(result.val.items[k].name.s))
                       /\ result.val.items[k].type.s \in RootTypes

C9_Witness ==
    /\ op = "account_from_name"
    /\ arg.t = "str"
    /\ Cardinality(Colons(arg.s)) >= 1
    /\ result.ok
    /\ result.val.type = Str(FirstSegment(arg.s))

(***************************************************************************)
(* C10                                                                     *)
(***************************************************************************)
\* C10: for every Account a and every options mapping c with the five role
\* keys, is_balance_sheet_account(a, c) is true exactly when a.type is
\* c[name_assets], c[name_liabilities] or c[name_equity], and
\* is_income_statement_account(a, c) exactly when a.type is c[name_income]
\* or c[name_expenses]: the configured values decide, not the canonical
\* type names.
C10_ClassificationFollowsOptions ==
    (arg.t = "Account" /\ options # NoneVal /\ RoleKeys \subseteq DOMAIN options.items)
        => LET c == options.items
           IN  /\ op = "is_balance_sheet_account"
                     => result = Return(Bool(arg.type \in
                            {c["name_assets"], c["name_liabilities"], c["name_equity"]}))
               /\ op = "is_income_statement_account"
                     => result = Return(Bool(arg.type \in
                            {c["name_income"], c["name_expenses"]}))

C10_Witness ==
    /\ op = "is_balance_sheet_account"
    /\ arg.t = "Account"
    /\ RoleKeys \subseteq DOMAIN options.items
    /\ arg.type = Str(Aktiva)
    /\ options.items["name_equity"] = Str(Aktiva)
    /\ IsTrue(result)

====
